---- MODULE Spec2Model ----
(***************************************************************************)
(* A model of the radix crate (src/src/lib.rs): RadixNum, a digit string   *)
(* tagged with the radix it is written in, its constructors (From<uN>,     *)
(* from_str), the radix change with_radix and the decoder as_decimal.      *)
(*                                                                         *)
(* Characters are their code points, strings are sequences of code points. *)
(* usize is an unsigned word of WordBits bits: the arithmetic of           *)
(* radix_x_to_dec is done in that width, and an overflow either aborts the *)
(* call (a build with overflow checks, the default of debug builds and of  *)
(* cargo test) or wraps modulo 2^WordBits (a release build).               *)
(***************************************************************************)
EXTENDS Integers, Sequences, FiniteSets, TLC

VARIABLES
    overflow_checks,  \* the build: TRUE when arithmetic overflow panics
    val,              \* the RadixNum the caller holds (NoVal: none)
    call,             \* the last call made and its arguments
    ret,              \* what the last call returned
    origin,           \* the integer the held value was built from, or -1
    loop              \* the locals of a dec_to_radix_x or radix_x_to_dec in progress

vars == <<overflow_checks, val, call, ret, origin, loop>>

----------------------------------------------------------------------------
(* Bounds of the model *)

\* width of usize in bits
WordBits == 8
\* longest text handed to from_str
MaxLen == 3
\* largest radix argument tried (MAX_RADIX is 36)
MaxRadixArg == 37
\* how far above the usize range the From<u128> arguments go
WideExtra == 48

(* Program constants *)

MAX_RADIX == 36
MIN_RADIX == 2
\* '0' as u8
ZERO_CHAR == 48
\* the offset of the letters: 'A' as u8 - 10
LETTER_OFFSET == 55
\* 'A' as usize
UPPER_A == 65
\* the 10 of `'A' as usize + radix - 10`
LETTER_BASE == 10
\* the range of `as u8`
U8_RANGE == 256

RECURSIVE Pow(_, _)
Pow(b, e) == IF e = 0 THEN 1 ELSE b * Pow(b, e - 1)

USIZE_RANGE == Pow(2, WordBits)
USIZE_MAX == USIZE_RANGE - 1

\* the characters the texts of the model are made of:
\* ' ', '0', '1', '9', 'A', 'Z', '[', 'a'
InputChars == {32, 48, 49, 57, 65, 90, 91, 97}

\* every text of at most MaxLen of these characters
Texts == UNION {[1..k -> InputChars] : k \in 0..MaxLen}

RadixArgs == 0..MaxRadixArg

----------------------------------------------------------------------------
(* Results: Ok(RadixNum), Ok(usize), Ok(String), Err(RadixErr), or a panic *)

NoVal == [radix |-> 0, digits |-> <<>>]
NoErr == [kind |-> "None", a |-> 0, b |-> 0]

RadixNotSupported(radix) == [kind |-> "RadixNotSupported", a |-> radix, b |-> 0]
EmptyInput == [kind |-> "EmptyInput", a |-> 0, b |-> 0]
FailedToPopFromStack == [kind |-> "FailedToPopFromStack", a |-> 0, b |-> 0]
IllegalChar(c) == [kind |-> "IllegalChar", a |-> c, b |-> 0]
IllegalDigit(d) == [kind |-> "IllegalDigit", a |-> d, b |-> 0]
InvalidDigit(digit, radix) == [kind |-> "InvalidDigit", a |-> digit, b |-> radix]

OkNum(n) == [tag |-> "Ok", num |-> n, str |-> <<>>, val |-> NoVal, err |-> NoErr]
OkStr(s) == [tag |-> "Ok", num |-> 0, str |-> s, val |-> NoVal, err |-> NoErr]
OkVal(v) == [tag |-> "Ok", num |-> 0, str |-> <<>>, val |-> v, err |-> NoErr]
Err(e) == [tag |-> "Err", num |-> 0, str |-> <<>>, val |-> NoVal, err |-> e]
Panic == [tag |-> "Panic", num |-> 0, str |-> <<>>, val |-> NoVal, err |-> NoErr]
NoRet == [tag |-> "None", num |-> 0, str |-> <<>>, val |-> NoVal, err |-> NoErr]

----------------------------------------------------------------------------
(* usize arithmetic of the build *)

\* a usize result r: a panic under overflow checks, the wrapped value otherwise
Wrapped(r) ==
    IF r > USIZE_MAX
    THEN IF overflow_checks THEN Panic ELSE OkNum(r % USIZE_RANGE)
    ELSE OkNum(r)

\* usize::pow: overflows exactly when the power does not fit
RECURSIVE usize_pow(_, _)
usize_pow(b, e) ==
    IF e = 0 THEN OkNum(1)
    ELSE LET p == usize_pow(b, e - 1)
         IN IF p.tag # "Ok" THEN p ELSE Wrapped(p.num * b)

----------------------------------------------------------------------------
(* std string helpers *)

is_whitespace(c) == c \in {9, 10, 11, 12, 13, 32}

RECURSIVE trim_start(_)
trim_start(s) ==
    IF s # <<>> /\ is_whitespace(Head(s)) THEN trim_start(Tail(s)) ELSE s

RECURSIVE trim_end(_)
trim_end(s) ==
    IF s # <<>> /\ is_whitespace(s[Len(s)])
    THEN trim_end(SubSeq(s, 1, Len(s) - 1))
    ELSE s

\* a trim that strips the front alone
trim_front_only(s) == trim_start(s)

trim(s) == trim_end(trim_start(s))

char_to_uppercase(c) == IF c >= 97 /\ c <= 122 THEN c - 32 ELSE c

to_uppercase(s) == [i \in 1..Len(s) |-> char_to_uppercase(s[i])]

\* u128/usize to_string: the decimal numeral
RECURSIVE to_string(_)
to_string(n) ==
    IF n < 10 THEN <<ZERO_CHAR + n>>
    ELSE Append(to_string(n \div 10), ZERO_CHAR + (n % 10))

----------------------------------------------------------------------------
(* The library *)

is_radix_valid(radix) == radix >= MIN_RADIX /\ radix <= MAX_RADIX

validate_radix(radix) ==
    IF ~is_radix_valid(radix) THEN Err(RadixNotSupported(radix)) ELSE OkNum(0)

\* the closure is_valid_digit of validate_base
is_valid_digit(d, radix) ==
    LET x == ZERO_CHAR <= d /\ d <= ZERO_CHAR + 9
        y == UPPER_A <= d /\ d <= ((UPPER_A + radix - LETTER_BASE) % U8_RANGE)
    IN x \/ y

\* validate_base without the uppercasing
validate_base_as_typed(base, radix) ==
    IF base = <<>> THEN Err(EmptyInput)
    ELSE LET b == trim(base)
             bad == {i \in 1..Len(b) : ~is_valid_digit(b[i], radix)}
             first == CHOOSE i \in bad : \A j \in bad : i <= j
         IN IF bad # {} THEN Err(InvalidDigit(b[first], radix)) ELSE OkStr(b)

validate_base(base, radix) ==
    IF base = <<>> THEN Err(EmptyInput)
    ELSE LET b == to_uppercase(trim(base))
             bad == {i \in 1..Len(b) : ~is_valid_digit(b[i], radix)}
             first == CHOOSE i \in bad : \A j \in bad : i <= j
         IN IF bad # {} THEN Err(InvalidDigit(b[first], radix)) ELSE OkStr(b)

\* get_offset with the letters one place too high
get_offset_high(digit) ==
    IF digit >= 0 /\ digit <= 9 THEN OkNum(ZERO_CHAR)
    ELSE IF digit >= 10 /\ digit <= 36 THEN OkNum(LETTER_OFFSET + 1)
    ELSE Err(IllegalDigit(digit))

\* the closure get_offset of dec_to_radix_x
get_offset(digit) ==
    IF digit >= 0 /\ digit <= 9 THEN OkNum(ZERO_CHAR)
    ELSE IF digit >= 10 /\ digit <= 36 THEN OkNum(LETTER_OFFSET)
    ELSE Err(IllegalDigit(digit))

\* modulus without its last reduction
modulus_unreduced(a, b) == (a % b) + b

modulus(a, b) == ((a % b) + b) % b

\* the `while number > 0` loop of dec_to_radix_x: Ok(stack) or the error
RECURSIVE encode_loop(_, _, _)
encode_loop(number, radix, stack) ==
    IF ~(number > 0) THEN OkStr(stack)
    ELSE LET remainder == modulus(number, radix)
             offset == get_offset(remainder)
             target_digit == (remainder + offset.num) % U8_RANGE
         IN IF offset.tag # "Ok" THEN offset
            ELSE encode_loop(number \div radix, radix, Append(stack, target_digit))

\* Vec::pop: Some(last element) as <<last>>, None as <<>>
vec_pop(stack) == IF stack = <<>> THEN <<>> ELSE <<stack[Len(stack)]>>

\* the pop loop reading the stack from its bottom: no reversal
RECURSIVE pop_loop_fifo(_, _)
pop_loop_fifo(stack, return_val) ==
    IF stack = <<>> THEN OkStr(return_val)
    ELSE pop_loop_fifo(Tail(stack), Append(return_val, Head(stack)))

\* the `while !stack.is_empty()` loop of dec_to_radix_x
RECURSIVE pop_loop(_, _)
pop_loop(stack, return_val) ==
    IF stack = <<>> THEN OkStr(return_val)
    ELSE LET digit == vec_pop(stack)
         IN IF digit = <<>> THEN Err(FailedToPopFromStack)
            ELSE pop_loop(SubSeq(stack, 1, Len(stack) - 1),
                          Append(return_val, digit[1]))

dec_to_radix_x(number, radix) ==
    LET vr == validate_radix(radix)
    IN IF vr.tag # "Ok" THEN vr
       ELSE IF number = 0 THEN OkStr(<<ZERO_CHAR>>)
       ELSE LET pushed == encode_loop(number, radix, <<>>)
            IN IF pushed.tag # "Ok" THEN pushed
               ELSE pop_loop(pushed.str, <<>>)

\* digit_to_dec counting the letters from 0 instead of 10
digit_to_dec_letters_from_zero(digit) ==
    IF digit >= ZERO_CHAR /\ digit <= ZERO_CHAR + 9 THEN OkNum(digit - ZERO_CHAR)
    ELSE IF digit >= UPPER_A /\ digit <= UPPER_A + 25 THEN OkNum(digit - UPPER_A)
    ELSE Err(IllegalChar(digit))

\* the nested fn digit_to_dec of radix_x_to_dec
digit_to_dec(digit) ==
    IF digit >= ZERO_CHAR /\ digit <= ZERO_CHAR + 9 THEN OkNum(digit - ZERO_CHAR)
    ELSE IF digit >= UPPER_A /\ digit <= UPPER_A + 25 THEN OkNum(digit - LETTER_OFFSET)
    ELSE Err(IllegalChar(digit))

\* the `for (idx, token) in base.chars().rev().enumerate()` loop of
\* radix_x_to_dec, from position idx on
RECURSIVE decode_loop(_, _, _, _)
decode_loop(base, radix, idx, return_val) ==
    IF idx >= Len(base) THEN OkNum(return_val)
    ELSE LET token == base[Len(base) - idx]
             digit == char_to_uppercase(token)
             d == digit_to_dec(digit)
             p == usize_pow(radix, idx)
             dec_value == Wrapped(d.num * p.num)
             sum == Wrapped(return_val + dec_value.num)
         IN IF d.tag # "Ok" THEN d
            ELSE IF p.tag # "Ok" THEN p
            ELSE IF dec_value.tag # "Ok" THEN dec_value
            ELSE IF sum.tag # "Ok" THEN sum
            ELSE decode_loop(base, radix, idx + 1, sum.num)

\* radix_x_to_dec trusting its caller to have validated the text
radix_x_to_dec_unvalidated(base, radix) ==
    LET vr == validate_radix(radix)
    IN IF vr.tag # "Ok" THEN vr
       ELSE decode_loop(to_uppercase(trim(base)), radix, 0, 0)

radix_x_to_dec(base, radix) ==
    LET vr == validate_radix(radix)
        vb == validate_base(base, radix)
    IN IF vr.tag # "Ok" THEN vr
       ELSE IF vb.tag # "Ok" THEN vb
       ELSE decode_loop(vb.str, radix, 0, 0)

RadixVariant(radix, string) == [radix |-> radix, digits |-> string]

as_str(x) == x.digits

radix_of(x) == x.radix

as_decimal(x) == radix_x_to_dec(as_str(x), radix_of(x))

\* str::chars, collected: the characters from the front to the back
RECURSIVE chars(_)
chars(s) == IF s = <<>> THEN <<>> ELSE <<Head(s)>> \o chars(Tail(s))

\* str::chars().rev(), collected
RECURSIVE chars_rev(_)
chars_rev(s) == IF s = <<>> THEN <<>> ELSE Append(chars_rev(Tail(s)), Head(s))

\* digits iterating from the least-significant end
digits_from_the_end(x) == chars_rev(as_str(x))

digits(x) == chars(as_str(x))

with_radix(x, radix) ==
    LET dec == as_decimal(x)
        digits_radix_x == dec_to_radix_x(dec.num, radix)
    IN IF dec.tag # "Ok" THEN dec
       ELSE IF digits_radix_x.tag # "Ok" THEN digits_radix_x
       ELSE IF radix >= 2 /\ radix <= 36
            THEN OkVal(RadixVariant(radix, digits_radix_x.str))
            ELSE Err(RadixNotSupported(radix))

\* from_str looking at the text before the radix
from_str_text_first(base, radix) ==
    LET vb == validate_base(base, radix)
        vr == validate_radix(radix)
        dec == radix_x_to_dec(vb.str, radix)
    IN IF vb.tag # "Ok" THEN vb
       ELSE IF vr.tag # "Ok" THEN vr
       ELSE IF dec.tag # "Ok" THEN dec
       ELSE with_radix(RadixVariant(10, to_string(dec.num)), radix)

\* from_str storing the validated text as it is, without re-encoding it
from_str_stores_text(base, radix) ==
    LET vr == validate_radix(radix)
        vb == validate_base(base, radix)
        dec == radix_x_to_dec(vb.str, radix)
    IN IF vr.tag # "Ok" THEN vr
       ELSE IF vb.tag # "Ok" THEN vb
       ELSE IF dec.tag # "Ok" THEN dec
       ELSE OkVal(RadixVariant(radix, vb.str))

\* from_str returning the decimal form, without the change of radix
from_str_stays_decimal(base, radix) ==
    LET vr == validate_radix(radix)
        vb == validate_base(base, radix)
        dec == radix_x_to_dec(vb.str, radix)
    IN IF vr.tag # "Ok" THEN vr
       ELSE IF vb.tag # "Ok" THEN vb
       ELSE IF dec.tag # "Ok" THEN dec
       ELSE OkVal(RadixVariant(10, to_string(dec.num)))

from_str(base, radix) ==
    LET vr == validate_radix(radix)
        vb == validate_base(base, radix)
        dec == radix_x_to_dec(vb.str, radix)
    IN IF vr.tag # "Ok" THEN vr
       ELSE IF vb.tag # "Ok" THEN vb
       ELSE IF dec.tag # "Ok" THEN dec
       ELSE with_radix(RadixVariant(10, to_string(dec.num)), radix)

\* impl From<usize/u8/u16/u32/u64/u128> for RadixNum
From(decimal) == RadixVariant(10, to_string(decimal))

----------------------------------------------------------------------------
(* The caller: it builds a value, calls its methods, and lets it go *)

Running == ret.tag # "Panic"

\* the caller has looked at the result of its last call
Ready == Running /\ ret.tag = "None"

NoCall == [op |-> "none", radix |-> 0, text |-> <<>>, n |-> 0]

\* no dec_to_radix_x and no radix_x_to_dec is being stepped through
Idle ==
    [pc |-> "idle", radix |-> 0, input |-> 0, number |-> 0, stack |-> <<>>,
     return_val |-> <<>>, base |-> <<>>, idx |-> 0, sum |-> 0,
     pushes |-> 0, pops |-> 0, tokens |-> 0]

Init ==
    /\ overflow_checks \in BOOLEAN
    /\ val = NoVal
    /\ call = NoCall
    /\ ret = NoRet
    /\ origin = -1
    /\ loop = Idle

\* RadixNum::from(n) for an n of a type no wider than usize
FromUsize ==
    /\ Ready /\ val = NoVal
    /\ \E n \in 0..USIZE_MAX :
        /\ val' = From(n)
        /\ call' = [op |-> "from", radix |-> 0, text |-> <<>>, n |-> n]
        /\ ret' = OkVal(From(n))
        /\ origin' = n
    /\ UNCHANGED <<overflow_checks, loop>>

\* RadixNum::from(n as u128) (or as u64 where usize is narrower)
FromU128 ==
    /\ Ready /\ val = NoVal
    /\ \E n \in 0..(USIZE_MAX + WideExtra) :
        /\ val' = From(n)
        /\ call' = [op |-> "from_wide", radix |-> 0, text |-> <<>>, n |-> n]
        /\ ret' = OkVal(From(n))
        /\ origin' = n
    /\ UNCHANGED <<overflow_checks, loop>>

\* RadixNum::from_str(text, radix)
FromStr ==
    /\ Ready /\ val = NoVal
    /\ \E text \in Texts, radix \in RadixArgs :
        /\ ret' = from_str(text, radix)
        /\ val' = IF ret'.tag = "Ok" THEN ret'.val ELSE NoVal
        /\ call' = [op |-> "from_str", radix |-> radix, text |-> text, n |-> 0]
    /\ origin' = -1
    /\ UNCHANGED <<overflow_checks, loop>>

\* x = RadixNum::from_str(x.as_str(), x.radix())?: the held value through its text
Reparse ==
    /\ Ready /\ val # NoVal
    /\ ret' = from_str(as_str(val), radix_of(val))
    /\ val' = IF ret'.tag = "Ok" THEN ret'.val ELSE val
    /\ call' = [op |-> "reparse", radix |-> radix_of(val), text |-> as_str(val), n |-> 0]
    /\ UNCHANGED <<overflow_checks, loop, origin>>

\* x = x.with_radix(radix)?
WithRadix ==
    /\ Ready /\ val # NoVal
    /\ \E radix \in RadixArgs :
        /\ ret' = with_radix(val, radix)
        /\ val' = IF ret'.tag = "Ok" THEN ret'.val ELSE val
        /\ call' = [op |-> "with_radix", radix |-> radix, text |-> <<>>, n |-> 0]
    /\ UNCHANGED <<overflow_checks, loop, origin>>

\* x.as_decimal()
AsDecimal ==
    /\ Ready /\ val # NoVal
    /\ ret' = as_decimal(val)
    /\ call' = [op |-> "as_decimal", radix |-> 0, text |-> <<>>, n |-> 0]
    /\ UNCHANGED <<overflow_checks, loop, val, origin>>

\* x.digits().collect()
Digits ==
    /\ Ready /\ val # NoVal
    /\ ret' = OkStr(digits(val))
    /\ call' = [op |-> "digits", radix |-> 0, text |-> <<>>, n |-> 0]
    /\ UNCHANGED <<overflow_checks, loop, val, origin>>

\* the caller has matched on the result of the call and goes on
Take ==
    /\ Running /\ ret.tag # "None"
    /\ call' = NoCall
    /\ ret' = NoRet
    /\ UNCHANGED <<overflow_checks, loop, val, origin>>

\* the value goes out of scope
Drop ==
    /\ Ready /\ val # NoVal
    /\ val' = NoVal
    /\ origin' = -1
    /\ UNCHANGED <<overflow_checks, loop, call, ret>>

Next ==
    \/ FromUsize
    \/ FromU128
    \/ FromStr
    \/ Reparse
    \/ WithRadix
    \/ AsDecimal
    \/ Digits
    \/ Take
    \/ Drop

Spec == Init /\ [][Next]_vars

----------------------------------------------------------------------------
(* derive(PartialEq, Eq, PartialOrd, Ord) on enum RadixNum *)

\* an equality that looks at the strings alone, not at the variants
eq_of_strings(x, y) == as_str(x) = as_str(y)

\* the derived ==: the same variant, holding equal strings
eq(x, y) == radix_of(x) = radix_of(y) /\ as_str(x) = as_str(y)

\* String's <: lexicographic on the bytes, a proper prefix being smaller
RECURSIVE str_lt(_, _)
str_lt(a, b) ==
    IF b = <<>> THEN FALSE
    ELSE IF a = <<>> THEN TRUE
    ELSE IF Head(a) # Head(b) THEN Head(a) < Head(b)
    ELSE str_lt(Tail(a), Tail(b))

\* the derived <: the variants in their order of declaration (Radix2 first,
\* Radix36 last), then the strings
lt(x, y) ==
    IF radix_of(x) # radix_of(y) THEN radix_of(x) < radix_of(y)
    ELSE str_lt(as_str(x), as_str(y))

\* a bool result
OkBool(b) == OkNum(IF b THEN 1 ELSE 0)

----------------------------------------------------------------------------
(* A caller that keeps the value it calls on: the calls take &self, and the *)
(* variants of the enum are public, so a value can also be built directly   *)

\* longest string of a directly built variant
MaxBuiltLen == 2

\* the radix arguments of this caller
CallRadixes == {0, 2, 10, 16, 36, 37}

\* the integers the second operand of a comparison is built from
CompareWith == {0, 9, 10, 255}

\* RadixNum::RadixN(text.to_string()), built without any validation
Build ==
    /\ Ready /\ val = NoVal
    /\ \E radix \in {r \in CallRadixes : is_radix_valid(r)},
          text \in {t \in Texts : Len(t) <= MaxBuiltLen} :
        /\ val' = RadixVariant(radix, text)
        /\ call' = [op |-> "build", radix |-> radix, text |-> text, n |-> 0]
        /\ ret' = OkVal(RadixVariant(radix, text))
    /\ origin' = -2
    /\ UNCHANGED <<overflow_checks, loop>>

\* a with_radix that writes its result into the value it is called on
ConvertInPlace ==
    /\ Ready /\ val # NoVal
    /\ \E radix \in CallRadixes :
        /\ ret' = with_radix(val, radix)
        /\ val' = IF ret'.tag = "Ok" THEN ret'.val ELSE val
        /\ call' = [op |-> "with_radix", radix |-> radix, text |-> <<>>, n |-> 0]
    /\ UNCHANGED <<overflow_checks, loop, origin>>

\* let y = x.with_radix(radix)
Convert ==
    /\ Ready /\ val # NoVal
    /\ \E radix \in CallRadixes :
        /\ ret' = with_radix(val, radix)
        /\ call' = [op |-> "with_radix", radix |-> radix, text |-> <<>>, n |-> 0]
    /\ UNCHANGED <<overflow_checks, loop, val, origin>>

\* let x = y.expect(..): the caller goes on with the value with_radix returned
Rebind ==
    /\ Running /\ call.op = "with_radix" /\ ret.tag = "Ok"
    /\ val' = ret.val
    /\ call' = NoCall
    /\ ret' = NoRet
    /\ UNCHANGED <<overflow_checks, loop, origin>>

\* x.as_str()
AsStr ==
    /\ Ready /\ val # NoVal
    /\ ret' = OkStr(as_str(val))
    /\ call' = [op |-> "as_str", radix |-> 0, text |-> <<>>, n |-> 0]
    /\ UNCHANGED <<overflow_checks, loop, val, origin>>

\* x.radix()
Radix ==
    /\ Ready /\ val # NoVal
    /\ ret' = OkNum(radix_of(val))
    /\ call' = [op |-> "radix", radix |-> 0, text |-> <<>>, n |-> 0]
    /\ UNCHANGED <<overflow_checks, loop, val, origin>>

\* the second operand of a comparison: RadixNum::from(n).with_radix(radix)
Operand(n, radix) == with_radix(From(n), radix).val

\* x == RadixNum::from(n).with_radix(radix)
Eq ==
    /\ Ready /\ val # NoVal
    /\ \E n \in CompareWith, radix \in {radix_of(val), 10} :
        /\ ret' = OkBool(eq(val, Operand(n, radix)))
        /\ call' = [op |-> "eq", radix |-> radix, text |-> <<>>, n |-> n]
    /\ UNCHANGED <<overflow_checks, loop, val, origin>>

\* x < RadixNum::from(n).with_radix(x.radix())
Lt ==
    /\ Ready /\ val # NoVal
    /\ \E n \in CompareWith :
        /\ ret' = OkBool(lt(val, Operand(n, radix_of(val))))
        /\ call' = [op |-> "lt", radix |-> radix_of(val), text |-> <<>>, n |-> n]
    /\ UNCHANGED <<overflow_checks, loop, val, origin>>

NextCalls ==
    \/ FromUsize
    \/ FromU128
    \/ FromStr
    \/ Build
    \/ Convert
    \/ Rebind
    \/ AsStr
    \/ Radix
    \/ AsDecimal
    \/ Digits
    \/ Eq
    \/ Lt
    \/ Take
    \/ Drop

SpecCalls == Init /\ [][NextCalls]_vars

----------------------------------------------------------------------------
(* dec_to_radix_x and radix_x_to_dec one loop iteration at a time. pushes,  *)
(* pops and tokens count the iterations of the three loops.                 *)

\* dec_to_radix_x(number, radix) up to its first loop
EnterDecToRadixX ==
    /\ loop.pc = "idle"
    /\ \E number \in 0..USIZE_MAX, radix \in RadixArgs :
        LET vr == validate_radix(radix)
            at == [Idle EXCEPT !.radix = radix, !.input = number]
        IN /\ call' = [op |-> "dec_to_radix_x", radix |-> radix,
                       text |-> <<>>, n |-> number]
           /\ IF vr.tag # "Ok"
              THEN loop' = [at EXCEPT !.pc = "done"] /\ ret' = vr
              ELSE IF number = 0
              THEN /\ loop' = [at EXCEPT !.pc = "done", !.return_val = <<ZERO_CHAR>>]
                   /\ ret' = OkStr(<<ZERO_CHAR>>)
              ELSE /\ loop' = [at EXCEPT !.pc = "encode", !.number = number]
                   /\ ret' = NoRet
    /\ UNCHANGED <<overflow_checks, val, origin>>

\* one iteration of `while number > 0`
EncodeStep ==
    /\ loop.pc = "encode" /\ loop.number > 0
    /\ LET remainder == modulus(loop.number, loop.radix)
           offset == get_offset(remainder)
           target_digit == (remainder + offset.num) % U8_RANGE
       IN IF offset.tag # "Ok"
          THEN loop' = [loop EXCEPT !.pc = "done"] /\ ret' = offset
          ELSE /\ loop' = [loop EXCEPT !.number = loop.number \div loop.radix,
                                       !.stack = Append(@, target_digit),
                                       !.pushes = @ + 1]
               /\ ret' = NoRet
    /\ UNCHANGED <<overflow_checks, val, call, origin>>

\* `while number > 0` is left: return_val = String::new()
EncodeExit ==
    /\ loop.pc = "encode" /\ ~(loop.number > 0)
    /\ loop' = [loop EXCEPT !.pc = "pop", !.return_val = <<>>]
    /\ UNCHANGED <<overflow_checks, val, call, ret, origin>>

\* one iteration of `while !stack.is_empty()`
PopStep ==
    /\ loop.pc = "pop" /\ loop.stack # <<>>
    /\ LET digit == vec_pop(loop.stack)
       IN IF digit = <<>>
          THEN loop' = [loop EXCEPT !.pc = "done"] /\ ret' = Err(FailedToPopFromStack)
          ELSE /\ loop' = [loop EXCEPT
                            !.stack = SubSeq(@, 1, Len(@) - 1),
                            !.return_val = Append(@, digit[1]),
                            !.pops = @ + 1]
               /\ ret' = NoRet
    /\ UNCHANGED <<overflow_checks, val, call, origin>>

\* `while !stack.is_empty()` is left: Ok(return_val)
PopExit ==
    /\ loop.pc = "pop" /\ loop.stack = <<>>
    /\ loop' = [loop EXCEPT !.pc = "done"]
    /\ ret' = OkStr(loop.return_val)
    /\ UNCHANGED <<overflow_checks, val, call, origin>>

\* radix_x_to_dec(base, radix) up to its loop
EnterRadixXToDec ==
    /\ loop.pc = "idle"
    /\ \E base \in Texts, radix \in RadixArgs :
        LET vr == validate_radix(radix)
            vb == validate_base(base, radix)
            at == [Idle EXCEPT !.radix = radix]
        IN /\ call' = [op |-> "radix_x_to_dec", radix |-> radix,
                       text |-> base, n |-> 0]
           /\ IF vr.tag # "Ok"
              THEN loop' = [at EXCEPT !.pc = "done"] /\ ret' = vr
              ELSE IF vb.tag # "Ok"
              THEN loop' = [at EXCEPT !.pc = "done"] /\ ret' = vb
              ELSE /\ loop' = [at EXCEPT !.pc = "decode", !.base = vb.str]
                   /\ ret' = NoRet
    /\ UNCHANGED <<overflow_checks, val, origin>>

\* one iteration of `for (idx, token) in base.chars().rev().enumerate()`
DecodeStep ==
    /\ loop.pc = "decode" /\ loop.idx < Len(loop.base)
    /\ LET token == loop.base[Len(loop.base) - loop.idx]
           digit == char_to_uppercase(token)
           d == digit_to_dec(digit)
           p == usize_pow(loop.radix, loop.idx)
           dec_value == Wrapped(d.num * p.num)
           return_val == Wrapped(loop.sum + dec_value.num)
           failed == IF d.tag # "Ok" THEN d
                     ELSE IF p.tag # "Ok" THEN p
                     ELSE IF dec_value.tag # "Ok" THEN dec_value
                     ELSE return_val
       IN IF failed.tag # "Ok"
          THEN /\ loop' = [loop EXCEPT !.pc = "done", !.tokens = @ + 1]
               /\ ret' = failed
          ELSE /\ loop' = [loop EXCEPT !.idx = @ + 1, !.sum = return_val.num,
                                       !.tokens = @ + 1]
               /\ ret' = NoRet
    /\ UNCHANGED <<overflow_checks, val, call, origin>>

\* the for loop is left: Ok(return_val)
DecodeExit ==
    /\ loop.pc = "decode" /\ ~(loop.idx < Len(loop.base))
    /\ loop' = [loop EXCEPT !.pc = "done"]
    /\ ret' = OkNum(loop.sum)
    /\ UNCHANGED <<overflow_checks, val, call, origin>>

\* the function has returned (or aborted): its locals are gone
Return ==
    /\ loop.pc = "done"
    /\ loop' = Idle
    /\ call' = NoCall
    /\ ret' = NoRet
    /\ UNCHANGED <<overflow_checks, val, origin>>

NextLoops ==
    \/ EnterDecToRadixX
    \/ EncodeStep
    \/ EncodeExit
    \/ PopStep
    \/ PopExit
    \/ EnterRadixXToDec
    \/ DecodeStep
    \/ DecodeExit
    \/ Return

SpecLoops == Init /\ [][NextLoops]_vars

\* stepping through the loops gives what the operators above compute
StepsAgreeWithOperators ==
    loop.pc = "done"
        => ret = IF call.op = "dec_to_radix_x"
                 THEN dec_to_radix_x(call.n, call.radix)
                 ELSE radix_x_to_dec(call.text, call.radix)

----------------------------------------------------------------------------
(* What the properties are stated in: the digit alphabet and the positional *)
(* numerals of arithmetic, written without the library's code               *)

\* 0123456789ABCDEFGHIJKLMNOPQRSTUVWXYZ
Alphabet ==
    <<48, 49, 50, 51, 52, 53, 54, 55, 56, 57,
      65, 66, 67, 68, 69, 70, 71, 72, 73, 74, 75, 76, 77,
      78, 79, 80, 81, 82, 83, 84, 85, 86, 87, 88, 89, 90>>

InAlphabet(c) == \E k \in 1..Len(Alphabet) : Alphabet[k] = c

\* the value of the digit c: its index in the alphabet
DigitValue(c) == (CHOOSE k \in 1..Len(Alphabet) : Alphabet[k] = c) - 1

\* c is a digit of the radix
IsDigitOf(c, radix) == InAlphabet(c) /\ DigitValue(c) < radix

\* the sum of value(s_i) * radix^i, i = 0 at the right end
RECURSIVE PositionalValue(_, _)
PositionalValue(s, radix) ==
    IF s = <<>> THEN 0
    ELSE PositionalValue(SubSeq(s, 1, Len(s) - 1), radix) * radix
         + DigitValue(s[Len(s)])

\* the numeral of n in the radix, most-significant digit first
RECURSIVE Numeral(_, _)
Numeral(n, radix) ==
    IF n < radix THEN <<Alphabet[n + 1]>>
    ELSE Append(Numeral(n \div radix, radix), Alphabet[(n % radix) + 1])

\* the held value was built from an integer of the usize range
OriginNative == origin >= 0 /\ origin <= USIZE_MAX

\* the text of the last from_str, trimmed and uppercased
CallText == to_uppercase(trim(call.text))

----------------------------------------------------------------------------
(* C1..C10 *)

\* C1: with_radix preserves the value: for every value x built through From,
\* from_str and with_radix and every radix r in 2..36, x.with_radix(r) succeeds
\* and decodes to what x decodes to, and to n when x was built from an n of
\* the usize range.
C1_WithRadixPreservesValue ==
    [][(call'.op = "with_radix" /\ is_radix_valid(call'.radix))
        => /\ ret'.tag = "Ok"
           /\ as_decimal(val') = as_decimal(val)
           /\ (OriginNative => as_decimal(val') = OkNum(origin))]_vars

\* C2: round trip through text: a value built from an n of the usize range
\* and brought to radix r, written out and parsed again under r, is Ok, is in
\* radix r and decodes to Ok(n).
C2_RoundTripThroughText ==
    (call.op = "reparse" /\ OriginNative)
        => /\ ret.tag = "Ok"
           /\ radix_of(ret.val) = call.radix
           /\ as_decimal(ret.val) = OkNum(origin)

C2_Witness ==
    /\ call.op = "reparse" /\ origin = 255 /\ call.radix = 16
    /\ call.text = <<70, 70>>
    /\ ret.tag = "Ok" /\ as_decimal(ret.val) = OkNum(255)

C4_DecodingIsPositionalEvaluation ==
    (/\ call.op = "from_str" /\ is_radix_valid(call.radix)
     /\ call.text # <<>>
     /\ \A i \in 1..Len(call.text) : IsDigitOf(call.text[i], call.radix)
     /\ PositionalValue(call.text, call.radix) <= USIZE_MAX)
        => /\ ret.tag = "Ok"
           /\ as_decimal(ret.val) = OkNum(PositionalValue(call.text, call.radix))

\* C5: with_radix(radix) returns Err(RadixNotSupported(radix)) for every
\* radix outside 2..36 and every value it is called on.
C5_WithRadixRejectsBadRadix ==
    (call.op = "with_radix" /\ ~(call.radix >= 2 /\ call.radix <= 36))
        => ret = Err(RadixNotSupported(call.radix))

\* C6: from_str validates the radix first: for every radix outside 2..36 it
\* returns Err(RadixNotSupported(radix)) whatever the text is, the empty text
\* and texts with invalid characters included.
C6_FromStrRadixFirst ==
    (call.op = "from_str" /\ ~(call.radix >= 2 /\ call.radix <= 36))
        => ret = Err(RadixNotSupported(call.radix))

C6_Witness ==
    /\ call.op = "from_str" /\ call.radix = 37 /\ call.text = <<>>
    /\ ret = Err(RadixNotSupported(37))

\* C7: from_str returns Err(EmptyInput) for every valid radix whenever the
\* text is empty or made only of whitespace.
C7_EmptyInput ==
    (/\ call.op = "from_str" /\ call.radix >= 2 /\ call.radix <= 36
     /\ \A i \in 1..Len(call.text) : call.text[i] = 32)
        => ret = Err(EmptyInput)

C7_Witness ==
    /\ call.op = "from_str" /\ call.radix = 10 /\ call.text = <<32, 32>>
    /\ ret = Err(EmptyInput)

\* a letter the radix has: radix > 10 and c in 'A'..'A'+(radix-11)
LetterOfRadix(c, radix) == radix > 10 /\ c >= 65 /\ c <= 65 + (radix - 11)

\* the places of the text that hold neither a decimal digit character nor a
\* letter of the radix
NotAccepted ==
    {i \in 1..Len(CallText) :
        /\ ~(CallText[i] >= 48 /\ CallText[i] <= 57)
        /\ ~LetterOfRadix(CallText[i], call.radix)}

\* C8: the letter bound of the validation: from_str accepts an uppercased
\* letter c only when radix > 10 and c is in 'A'..'A'+(radix-11); any other
\* letter makes it return Err(InvalidDigit{c, radix}) (stated of the first
\* character of the text that is not accepted).
C8_LetterBound ==
    (/\ call.op = "from_str" /\ call.radix >= 2 /\ call.radix <= 36
     /\ NotAccepted # {})
        => LET first == CHOOSE i \in NotAccepted : \A j \in NotAccepted : i <= j
           IN (CallText[first] >= 65 /\ CallText[first] <= 90)
                => ret = Err(InvalidDigit(CallText[first], call.radix))

\* C9: from_str fails with InvalidDigit whenever the text holds a character
\* that is not a digit of the radix (its digit value is >= radix), a decimal
\* digit character under a radix below 10 included.
C9_DigitsBelowRadix ==
    (/\ call.op = "from_str" /\ call.radix >= 2 /\ call.radix <= 36
     /\ \E i \in 1..Len(CallText) : ~IsDigitOf(CallText[i], call.radix))
        => (ret.tag = "Err" /\ ret.err.kind = "InvalidDigit")

\* C10: the digit-range invariant: every character of as_str() of every value
\* built by any sequence of From, from_str and with_radix calls is in the
\* alphabet 0-9A-Z and denotes a value strictly less than radix().
C10_DigitRange ==
    val # NoVal
        => \A i \in 1..Len(as_str(val)) : IsDigitOf(as_str(val)[i], radix_of(val))

C10_Witness ==
    /\ call.op = "with_radix" /\ ret.tag = "Ok"
    /\ radix_of(val) = 36 /\ as_str(val) = <<49, 90>>

----------------------------------------------------------------------------
(* C11..C20 *)

\* s is in canonical form: non-empty, no lowercase letter, no whitespace, and
\* no leading '0' unless it is exactly "0"
Canonical(s) ==
    /\ s # <<>>
    /\ \A i \in 1..Len(s) :
        /\ ~(s[i] >= 97 /\ s[i] <= 122)
        /\ s[i] \notin {9, 10, 11, 12, 13, 32}
    /\ (s[1] = 48 => Len(s) = 1)

\* C11: the canonical-form invariant: as_str() of every value returned by
\* From, from_str or with_radix is non-empty, uppercase, free of whitespace
\* and without a leading '0' unless it is "0"; from_str re-encodes its input,
\* so "009" in radix 10 is stored as "9".
C11_CanonicalForm ==
    /\ (val # NoVal => Canonical(as_str(val)))
    /\ (ret.tag = "Ok" /\ ret.val # NoVal => Canonical(as_str(ret.val)))
    /\ (call.op = "from_str" /\ call.radix = 10 /\ call.text = <<48, 48, 57>>
            => ret.tag = "Ok" /\ as_str(ret.val) = <<57>>)

C11_Witness ==
    /\ call.op = "from_str" /\ call.radix = 10 /\ call.text = <<48, 48, 57>>
    /\ ret.tag = "Ok" /\ as_str(val) = <<57>>

\* C12: zero canonicalization: the magnitude zero is exactly "0" in every
\* radix: from(0).with_radix(r) is "0" for every r in 2..36, and from_str of
\* any all-zero text under any valid radix is "0" and decodes to Ok(0).
C12_ZeroCanonicalization ==
    /\ (call.op = "with_radix" /\ is_radix_valid(call.radix) /\ origin = 0)
            => (ret.tag = "Ok" /\ as_str(ret.val) = <<48>>)
    /\ (/\ call.op = "from_str" /\ is_radix_valid(call.radix)
        /\ call.text # <<>>
        /\ \A i \in 1..Len(call.text) : call.text[i] = 48)
            => /\ ret.tag = "Ok"
               /\ as_str(ret.val) = <<48>>
               /\ as_decimal(ret.val) = OkNum(0)

\* the texts that differ from t only in the case of their letters
RECURSIVE Recasings(_)
Recasings(t) ==
    IF t = <<>> THEN {<<>>}
    ELSE LET c == Head(t)
             upper == IF c >= 97 /\ c <= 122 THEN c - 32 ELSE c
             lower == IF c >= 65 /\ c <= 90 THEN c + 32 ELSE c
         IN {<<k>> \o u : k \in {upper, lower}, u \in Recasings(Tail(t))}

\* C13: case insensitivity: for every valid radix and every text, from_str of
\* the text and of any re-casing of it give the same outcome: the same error,
\* or the same radix and uppercase digits ("aa" and "AA" in radix 16 both
\* give "AA").
C13_CaseInsensitive ==
    (call.op = "from_str" /\ is_radix_valid(call.radix))
        => /\ \A u \in Recasings(call.text) : from_str(u, call.radix) = ret
           /\ (call.radix = 16 /\ call.text = <<97, 97>>
                => ret.tag = "Ok" /\ as_str(ret.val) = <<65, 65>>)

C13_Witness ==
    /\ call.op = "from_str" /\ call.radix = 16 /\ call.text = <<97, 65>>
    /\ ret.tag = "Ok" /\ as_str(ret.val) = <<65, 65>>
    /\ from_str(<<65, 97>>, 16) = ret

\* C14: idempotence of the radix change: for every value x built through the
\* calls and every r in 2..36, x.with_radix(r) succeeds, and changing its
\* result to radix r again succeeds with the same radix and the same digits.
C14_WithRadixIdempotent ==
    (call.op = "with_radix" /\ is_radix_valid(call.radix))
        => /\ ret.tag = "Ok"
           /\ with_radix(ret.val, call.radix) = ret

C16_DigitsAreAsStr ==
    [][call'.op = "digits"
        => /\ ret' = OkStr(as_str(val))
           /\ val' = val
           /\ OkStr(digits(val')) = ret'
           /\ (val = RadixVariant(16, <<70, 69>>) => ret'.str = <<70, 69>>)]_vars

C16_Witness ==
    /\ call.op = "digits" /\ val = RadixVariant(16, <<70, 69>>)
    /\ ret = OkStr(<<70, 69>>)

\* C17: construction from an integer always succeeds and is radix 10: for
\* every unsigned n, from(n) has radix 10 and the decimal numeral of n as its
\* string, the string the encoder produces: from(n).with_radix(10) has the
\* same as_str().
C17_FromIsDecimal ==
    (call.op \in {"from", "from_wide"})
        => /\ ret.tag = "Ok"
           /\ radix_of(ret.val) = 10
           /\ as_str(ret.val) = Numeral(call.n, 10)
           /\ with_radix(ret.val, 10) = OkVal(ret.val)

\* C18: as_decimal of every value obtained through the public constructors
\* (From<u8..u128>, from_str, with_radix) returns Ok with the magnitude the
\* digits denote, and never Err.
C18_AsDecimalNeverFails ==
    (call.op = "as_decimal")
        => ret = OkNum(PositionalValue(as_str(val), radix_of(val)))

\* C19: encoding cannot fail once the radix is validated: dec_to_radix_x is
\* Ok for every number of the usize range and every radix in 2..36, and no
\* call ever returns IllegalDigit or FailedToPopFromStack.
C19_EncodingCannotFail ==
    /\ ret.err.kind \notin {"IllegalDigit", "FailedToPopFromStack"}
    /\ (call.op = "from" =>
            \A r \in MIN_RADIX..MAX_RADIX : dec_to_radix_x(call.n, r).tag = "Ok")
    /\ (call.op = "with_radix" /\ is_radix_valid(call.radix) /\ OriginNative
            => ret.tag = "Ok")

C19_Witness ==
    /\ call.op = "with_radix" /\ origin = 35 /\ call.radix = 36
    /\ ret = OkVal(RadixVariant(36, <<90>>))

\* C20: IllegalChar is unreachable after validation: for every radix in
\* 2..36 no from_str and no as_decimal returns Err(IllegalChar(_)).
C20_IllegalCharUnreachable ==
    (call.op \in {"from_str", "reparse", "as_decimal"})
        => ret.err.kind # "IllegalChar"

----------------------------------------------------------------------------
(* C21..C30 *)

\* C21: every failure is a typed result: whatever the text, the radix and the
\* value (From<u64>/From<u128> values and digit strings of a magnitude at or
\* above 2^WordBits included), each from_str, with_radix and as_decimal
\* finishes with Ok or Err; none aborts through an arithmetic overflow.
C21_EveryFailureIsTyped ==
    (call.op \in {"from_str", "reparse", "with_radix", "as_decimal"})
        => ret.tag \in {"Ok", "Err"}

\* C22: values are immutable: with_radix, as_decimal, as_str, radix and digits
\* leave the value they are called on unchanged, whether they succeed or fail:
\* its as_str() and radix() are what they were before; as_str and radix return
\* the string and the radix of that value, and with_radix returns a new value,
\* of the radix asked for.
C22_ValuesAreImmutable ==
    [][/\ (call'.op \in {"with_radix", "as_decimal", "as_str", "radix", "digits"}
            => /\ val' = val
               /\ as_str(val') = as_str(val)
               /\ radix_of(val') = radix_of(val))
       /\ (call'.op = "as_str" => ret' = OkStr(as_str(val)))
       /\ (call'.op = "radix" => ret' = OkNum(radix_of(val)))
       /\ (call'.op = "with_radix" /\ ret'.tag = "Ok"
            => /\ radix_of(ret'.val) = call'.radix
               /\ (call'.radix # radix_of(val) => ret'.val # val'))]_vars

C22_Witness ==
    /\ call.op = "with_radix" /\ call.radix = 16 /\ ret.tag = "Ok"
    /\ val = RadixVariant(10, <<50, 53, 53>>)
    /\ ret.val = RadixVariant(16, <<70, 70>>)

\* C23: with_radix validates the new radix before it decodes self: for a
\* radix outside 2..36 it returns Err(RadixNotSupported(radix)) whatever self
\* holds; when decoding self fails or overflows (a directly built variant
\* with invalid digits, a From<u128> value above usize), that failure does
\* not take precedence over the radix error.
C23_RadixValidatedBeforeDecoding ==
    (call.op = "with_radix" /\ ~is_radix_valid(call.radix))
        => /\ ret = Err(RadixNotSupported(call.radix))
           /\ (as_decimal(val).tag # "Ok" => ret # as_decimal(val))

\* what holds of the three loops in every run, aborted ones included: each
\* iteration strictly decreases what is left (number, the stack, the
\* characters not yet read), the encode loop makes as many iterations as the
\* numeral has digits, at most WordBits, the pop loop one per pushed digit,
\* and the decode loop at most one per character, exactly one per character
\* when it runs to its end
LoopsStayWithinDigitLength ==
    [][/\ (loop.pc = "encode" /\ loop'.pc = "encode"
            => loop'.number < loop.number /\ loop'.number >= 0)
       /\ (loop.pc = "encode" /\ loop'.pc = "pop"
            => /\ loop.pushes = Len(Numeral(loop.input, loop.radix))
               /\ loop.pushes <= WordBits)
       /\ (loop.pc = "pop" /\ loop'.pc = "pop"
            => Len(loop'.stack) < Len(loop.stack))
       /\ (loop.pc = "pop" /\ loop'.pc = "done"
            => /\ ret'.tag = "Ok"
               /\ loop'.pops = loop'.pushes
               /\ loop'.pops = Len(ret'.str))
       /\ (loop.pc = "decode" /\ loop'.pc = "decode"
            => Len(loop'.base) - loop'.idx < Len(loop.base) - loop.idx)
       /\ (loop.pc = "decode" => loop'.tokens <= Len(loop'.base))
       /\ (loop.pc = "decode" /\ loop'.pc = "done" /\ ret'.tag = "Ok"
            => loop'.tokens = Len(loop'.base))]_vars

\* C24: both loops end within the digit length: for every number and every
\* radix in 2..36 each iteration of the encode loop strictly decreases number
\* and the loop stops after exactly as many iterations as the result has
\* digits, at most WordBits; the pop loop runs once per pushed digit; the
\* decode loop runs exactly once per character of its text.
C24_LoopsEndWithinDigitLength ==
    [][/\ (loop.pc = "encode" /\ loop'.pc = "encode"
            => loop'.number < loop.number)
       /\ (loop.pc = "pop" /\ loop'.pc = "done"
            => /\ loop'.pushes = Len(ret'.str)
               /\ loop'.pushes <= WordBits
               /\ loop'.pops = loop'.pushes)
       /\ (loop.pc = "decode" /\ loop'.pc = "done"
            => loop'.tokens = Len(loop'.base))]_vars

\* C25: the two digit mappings are mutually inverse over the alphabet: for
\* every digit value d in 0..35 the encoder emits the character at index d of
\* 0123456789ABCDEFGHIJKLMNOPQRSTUVWXYZ ('0'+d below 10, 'A'+(d-10) from 10
\* on) and digit_to_dec of that character is d; for every character c of the
\* alphabet, encoding digit_to_dec(c) gives c back. Stated of the one-digit
\* values the calls produce, and of the two mappings themselves.
C25_DigitMappingsInverse ==
    /\ (call.op = "with_radix" /\ ret.tag = "Ok" /\ OriginNative
        /\ origin < call.radix)
            => /\ as_str(ret.val) = <<Alphabet[origin + 1]>>
               /\ as_str(ret.val) =
                    <<IF origin < 10 THEN 48 + origin ELSE 65 + (origin - 10)>>
               /\ digit_to_dec(as_str(ret.val)[1]) = OkNum(origin)
               /\ as_decimal(ret.val) = OkNum(origin)
    /\ (call.op = "from")
            => /\ \A d \in 0..35 :
                    /\ get_offset(d).tag = "Ok"
                    /\ (d + get_offset(d).num) % U8_RANGE = Alphabet[d + 1]
                    /\ digit_to_dec((d + get_offset(d).num) % U8_RANGE) = OkNum(d)
               /\ \A k \in 1..Len(Alphabet) :
                    LET c == Alphabet[k]
                        d == digit_to_dec(c)
                    IN /\ d.tag = "Ok"
                       /\ (d.num + get_offset(d.num).num) % U8_RANGE = c

C25_Witness ==
    /\ call.op = "with_radix" /\ origin = 10 /\ call.radix = 36
    /\ ret = OkVal(RadixVariant(36, <<65>>))
    /\ digit_to_dec(65) = OkNum(10)

\* the positions of t that hold no whitespace
Inked(t) == {i \in 1..Len(t) : t[i] \notin {9, 10, 11, 12, 13, 32}}

\* t without the whitespace around it, cut out by position
Stripped(t) ==
    IF Inked(t) = {} THEN <<>>
    ELSE LET first == CHOOSE i \in Inked(t) : \A j \in Inked(t) : i <= j
             last == CHOOSE i \in Inked(t) : \A j \in Inked(t) : j <= i
         IN [k \in 1..(last - first + 1) |-> t[first + k - 1]]

\* C26: leading and trailing whitespace of the input is ignored: for every
\* valid radix r and every text that is some whitespace, a non-empty text t
\* without whitespace around it, and some whitespace, from_str of it gives
\* what from_str(t, r) gives, and the stored digits hold no whitespace.
C26_WhitespaceIgnored ==
    (call.op = "from_str" /\ is_radix_valid(call.radix)
     /\ Stripped(call.text) # <<>>)
        => /\ ret = from_str(Stripped(call.text), call.radix)
           /\ (ret.tag = "Ok" => Inked(as_str(ret.val)) = 1..Len(as_str(ret.val)))

C26_Witness ==
    /\ call.op = "from_str" /\ call.radix = 16 /\ call.text = <<32, 65, 32>>
    /\ ret = OkVal(RadixVariant(16, <<65>>))
    /\ ret = from_str(<<65>>, 16)

\* C27: no intermediate overflow when the magnitude fits: for every radix r
\* in 2..36 and every text of radix-r digits whose magnitude is below
\* 2^WordBits, from_str returns Ok with exactly that magnitude however long
\* the text is, redundant leading zeros included; nothing overflows or aborts.
C27_NoIntermediateOverflow ==
    (/\ call.op = "from_str" /\ is_radix_valid(call.radix)
     /\ CallText # <<>>
     /\ \A i \in 1..Len(CallText) : IsDigitOf(CallText[i], call.radix)
     /\ PositionalValue(CallText, call.radix) < USIZE_RANGE)
        => /\ ret.tag # "Panic"
           /\ ret.tag = "Ok"
           /\ radix_of(ret.val) = call.radix
           /\ PositionalValue(as_str(ret.val), call.radix)
                = PositionalValue(CallText, call.radix)

\* the held value was built through From, from_str and with_radix, and from
\* an integer of the usize range where it was built from an integer
BuiltWithinUsize == origin # -2 /\ origin <= USIZE_MAX

\* C28: derived equality is value-and-radix equality: for two values x and y
\* built through From, from_str and with_radix, of magnitudes within usize,
\* x == y holds exactly when x.radix() == y.radix() and x.as_decimal() ==
\* y.as_decimal(); values of one magnitude in different radices are not equal.
C28_EqIsRadixAndMagnitude ==
    (call.op = "eq" /\ BuiltWithinUsize)
        => LET y == Operand(call.n, call.radix)
           IN /\ as_decimal(val).tag = "Ok" /\ as_decimal(y).tag = "Ok"
              /\ (ret = OkBool(TRUE))
                    <=> (radix_of(val) = radix_of(y)
                         /\ as_decimal(val) = as_decimal(y))
              /\ (radix_of(val) # radix_of(y) /\ as_decimal(val) = as_decimal(y)
                    => ret = OkBool(FALSE))

C28_Witness ==
    /\ call.op = "eq" /\ call.n = 255 /\ call.radix = 16 /\ origin = -1
    /\ val = RadixVariant(16, <<70, 70>>)
    /\ ret = OkBool(TRUE)

\* C29: derived ordering agrees with magnitude within one radix: for two
\* values x and y of the same radix built through the calls, x < y holds
\* exactly when x.as_decimal() < y.as_decimal(), also when their digit
\* strings differ in length.
C29_LtIsMagnitudeOrder ==
    (call.op = "lt" /\ BuiltWithinUsize)
        => LET y == Operand(call.n, call.radix)
           IN /\ radix_of(y) = radix_of(val)
              /\ (ret = OkBool(TRUE))
                    <=> (as_decimal(val).num < as_decimal(y).num)

\* C30: radix changes are path-independent: for every value x built through
\* the calls and all radices a, b in 2..36, x.with_radix(a) succeeds and
\* x.with_radix(a).with_radix(b) == x.with_radix(b), the same variant and the
\* same digits; and x.with_radix(x.radix()) == x.
C30_WithRadixPathIndependent ==
    [][(call'.op = "with_radix" /\ is_radix_valid(call'.radix))
        => /\ ret'.tag = "Ok"
           /\ \A b \in MIN_RADIX..MAX_RADIX :
                with_radix(ret'.val, b) = with_radix(val, b)
           /\ (call'.radix = radix_of(val) => ret' = OkVal(val))]_vars

====
